---------------------------- MODULE Spec2Model ----------------------------
(***************************************************************************)
(* Model of Typst.Net's rust_core: the file store of world.rs (SystemWorld, *)
(* FileSlot, SlotCell) and the foreign boundary of lib.rs (compiler handle, *)
(* CompileResult ownership).                                                *)
(***************************************************************************)
EXTENDS Integers, Sequences, FiniteSets, TLC

(***************************************************************************)
(* Bounds of the model.                                                     *)
(***************************************************************************)
\* number of compile invocations on the handle
MaxPass == 2
\* number of changes the environment makes to the file system
MaxFsChanges == 2
\* number of source/file calls the engine makes on the store
MaxCalls == 3
\* source and file calls made by the engine threads of one compilation
MaxConcCalls == 2
\* today calls made by the engine over the life of a store
MaxTodays == 3
\* advances of the wall clock
MaxTicks == 2
\* number of compile results, and of strings, the caller holds unreleased
MaxHeld == 1
MaxStrs == 1

(***************************************************************************)
(* File identities.  "main" is FileId::new_fake("<main>"), "a" a project    *)
(* file, "esc" a project file whose virtual path escapes the root, "pk" a   *)
(* file of a package.                                                       *)
(***************************************************************************)
MainId == "main"
Ids == {"main", "a", "esc", "pk"}
CellKinds == {"source", "file"}
Cells == Ids \X CellKinds

\* id.package(): the package a file identity belongs to
package(id) == IF id = "pk" THEN "pkg" ELSE "none"

\* id.vpath().resolve(root): None when the virtual path escapes the root
vpath_resolves(id) == id # "esc"

(***************************************************************************)
(* Values: FileResult<T> and Option<FileResult<T>>.  An object (Source or   *)
(* Bytes) is its identity obj together with its content.                    *)
(***************************************************************************)
NoObj == <<>>
Ok(obj, content) == [ok |-> TRUE, err |-> "", obj |-> obj, content |-> content]
Err(e) == [ok |-> FALSE, err |-> e, obj |-> NoObj, content |-> <<>>]
None == [some |-> FALSE, res |-> Err("")]
Some(r) == [some |-> TRUE, res |-> r]

(***************************************************************************)
(* The file system: what is found at the path an identity resolves to.      *)
(***************************************************************************)
BOM == <<239, 187, 191>>
Contents == { <<97>>, BOM \o <<98>>, <<97, 255>> }
Missing == [kind |-> "missing", bytes |-> <<>>]
Dir == [kind |-> "dir", bytes |-> <<>>]
FileOf(c) == [kind |-> "file", bytes |-> c]
FsEntries == {Missing, Dir} \cup {FileOf(c) : c \in Contents}
\* identities whose path resolution reaches the file system
ReadIds == {id \in Ids : vpath_resolves(id)}
\* the files the environment rewrites in the model
MutableIds == {"a"}

\* the text the main document is created with
MainTexts == { <<61>> }

\* OnceLock<DateTime<Local>>: not yet set
NoTime == -1
\* the wall clock when the process starts, in hours since the epoch (UTC),
\* and the offset of the local time zone in hours
Clock0 == 22
LocalOffset == 2
\* no today call yet
NoToday == [pass |-> 0, some |-> FALSE, offset |-> 0, date |-> 0]
\* hours the wall clock advances in one step
TickHours == 12
\* hours in a day
DayHours == 24
\* Option<i64> offsets the engine asks with: None, Some(-12), Some(12)
NoOffset == [some |-> FALSE, hours |-> 0]
Offsets == {NoOffset, [some |-> TRUE, hours |-> -12], [some |-> TRUE, hours |-> 12]}

\* the threads of the engine that call source and file
Threads == {"t1", "t2"}
NoThread == "none"

VARIABLES
  handle,     \* the compiler handle: "none", "live" or "freed"
  inputs,     \* the input dictionary of the Library of the store
  held,       \* the CompileResults the caller holds and has not released
  strs,       \* the strings the caller holds and has not released
  heap,       \* the live allocations: address -> contents
  fault,      \* the memory fault seen so far ("none" if none)
  aborted,    \* the process has aborted (a panic in an extern "C" function)
  slots,      \* SystemWorld.slots: FileId -> FileSlot (present = in the map)
  fs,         \* environment: file system entry at each identity's path
  pkgOk,      \* environment: whether the package resolver succeeds
  pass,       \* number of compile invocations started
  inPass,     \* TRUE while the engine runs inside compile
  fsChanges,  \* number of environment changes made
  calls,      \* number of source/file calls made
  ret,        \* the last boundary operation and what it returned
  last,       \* per cell: the most recent call (pass, outcome read, value)
  reads,      \* per cell: number of storage reads (fs::metadata / fs::read)
  resolves,   \* per cell: number of system_path evaluations
  rebuilds,   \* per cell: number of invocations of the rebuild closure f
  prepares,   \* number of prepare_package invocations
  now,        \* SystemWorld.now: the captured instant, or NoTime
  clock,      \* environment: the wall clock, in hours (UTC)
  clockReads, \* number of reads of the clock (chrono::Local::now)
  todays,     \* number of today calls made
  lastToday,  \* the most recent today call: pass, offset, returned date
  mutex,      \* the thread that holds the lock of SystemWorld.slots, or NoThread
  tpc,        \* per thread: its position in source/file
  tcell,      \* per thread: the cell it resolves
  tfresh,     \* per thread: the cell was not accessed when the call was made
  tres,       \* per thread: the result of path().and_then(read) it holds
  tret        \* per thread: the value its call returned

envVars == <<fs, pkgOk, fsChanges>>
countVars == <<calls, reads, resolves, rebuilds, prepares>>
memVars == <<held, strs, heap, fault>>
timeVars == <<now, clock, clockReads, todays, lastToday>>
concVars == <<mutex, tpc, tcell, tfresh, tres, tret>>

(***************************************************************************)
(* world.rs: pure helpers.                                                  *)
(***************************************************************************)
\* std::str::from_utf8 : well-formed UTF-8 (RFC 3629 table)
RECURSIVE from_utf8_valid(_)
from_utf8_valid(b) ==
  LET n == Len(b)
      cont(i) == i <= n /\ b[i] >= 128 /\ b[i] <= 191
      rest(k) == SubSeq(b, k, n)
  IN IF n = 0 THEN TRUE
     ELSE IF b[1] < 128 THEN from_utf8_valid(rest(2))
     ELSE IF b[1] >= 194 /\ b[1] <= 223
       THEN cont(2) /\ from_utf8_valid(rest(3))
     ELSE IF b[1] = 224
       THEN n >= 3 /\ b[2] >= 160 /\ b[2] <= 191 /\ cont(3) /\ from_utf8_valid(rest(4))
     ELSE IF b[1] = 237
       THEN n >= 3 /\ b[2] >= 128 /\ b[2] <= 159 /\ cont(3) /\ from_utf8_valid(rest(4))
     ELSE IF b[1] >= 225 /\ b[1] <= 239
       THEN cont(2) /\ cont(3) /\ from_utf8_valid(rest(4))
     ELSE IF b[1] = 240
       THEN n >= 4 /\ b[2] >= 144 /\ b[2] <= 191 /\ cont(3) /\ cont(4) /\ from_utf8_valid(rest(5))
     ELSE IF b[1] >= 241 /\ b[1] <= 243
       THEN cont(2) /\ cont(3) /\ cont(4) /\ from_utf8_valid(rest(5))
     ELSE IF b[1] = 244
       THEN n >= 4 /\ b[2] >= 128 /\ b[2] <= 143 /\ cont(3) /\ cont(4) /\ from_utf8_valid(rest(5))
     ELSE FALSE

\* buf.strip_prefix(b"\xef\xbb\xbf").unwrap_or(buf)
strip_bom(buf) ==
  IF Len(buf) >= 3 /\ SubSeq(buf, 1, 3) = BOM THEN SubSeq(buf, 4, Len(buf)) ELSE buf

\* decode_utf8: the text of a buffer, or FileError::InvalidUtf8
decode_utf8(buf) ==
  IF from_utf8_valid(strip_bom(buf)) THEN Ok(NoObj, strip_bom(buf)) ELSE Err("InvalidUtf8")

\* read(path): fs::metadata, then fs::read
read(id) ==
  IF fs[id].kind = "missing" THEN Err("NotFound")
  ELSE IF fs[id].kind = "dir" THEN Err("IsDirectory")
  ELSE Ok(NoObj, fs[id].bytes)

\* package_storage.prepare_package(spec, ..)
prepare_package(spec) == IF pkgOk THEN Ok(NoObj, <<>>) ELSE Err("Package")

\* system_path: the path of an identity, or the error that prevents it
system_path(id) ==
  IF package(id) # "none" /\ ~prepare_package(package(id)).ok THEN Err("Package")
  ELSE IF ~vpath_resolves(id) THEN Err("AccessDenied")
  ELSE Ok(NoObj, <<>>)

\* path().and_then(|p| read(&p))
read_result(id) == IF system_path(id).ok THEN read(id) ELSE system_path(id)

\* typst::utils::hash128 of a FileResult<Vec<u8>>: a digest of the error
\* kind or of the bytes (a polynomial digest, collision free on Contents)
HashMod == 1000003
RECURSIVE hash_bytes(_, _)
hash_bytes(h, b) ==
  IF b = <<>> THEN h ELSE hash_bytes((h * 257 + b[1] + 1) % HashMod, Tail(b))
hash128(r) ==
  IF r.ok THEN 16 + hash_bytes(0, r.content)
  ELSE CASE r.err = "NotFound" -> 1
         [] r.err = "IsDirectory" -> 2
         [] r.err = "AccessDenied" -> 3
         [] r.err = "Package" -> 4
         [] OTHER -> 5

(***************************************************************************)
(* world.rs: SlotCell.                                                      *)
(***************************************************************************)
\* SlotCell::new
SlotCell_new == [data |-> None, fingerprint |-> 0, accessed |-> FALSE]

\* SlotCell::init
SlotCell_init(cell, v) == [cell EXCEPT !.data = Some(v), !.accessed = TRUE]

\* FileSlot::new
FileSlot_new == [present |-> TRUE, source |-> SlotCell_new, file |-> SlotCell_new]
NoSlot == [present |-> FALSE, source |-> SlotCell_new, file |-> SlotCell_new]

\* the closure FileSlot::source passes as f: decode, then replace the text of
\* the previous Source or construct a new one
source_f(c, data, prev) ==
  LET text == decode_utf8(data)
  IN IF ~text.ok THEN text
     ELSE IF prev.some THEN Ok(prev.res.obj, text.content)
     ELSE Ok(<<c[1], c[2], rebuilds[c] + 1>>, text.content)

\* the closure FileSlot::file passes as f: a new Bytes
file_f(c, data, prev) == Ok(<<c[1], c[2], rebuilds[c] + 1>>, data)

f_of(c, data, prev) ==
  IF c[2] = "source" THEN source_f(c, data, prev) ELSE file_f(c, data, prev)

\* get_or_init without the accessed short-circuit: every call resolves and reads
get_or_init_noshort(c, cell) ==
  LET result == read_result(c[1])
      fingerprint == hash128(result)
      prev == IF cell.data.some /\ cell.data.res.ok THEN cell.data ELSE None
      value == IF result.ok THEN f_of(c, result.content, prev) ELSE Err(result.err)
  IN IF cell.fingerprint = fingerprint /\ cell.data.some
       THEN [cell |-> [cell EXCEPT !.accessed = TRUE], value |-> cell.data.res,
             resolved |-> TRUE, read |-> system_path(c[1]).ok, rebuilt |-> FALSE]
     ELSE [cell |-> [data |-> Some(value), fingerprint |-> fingerprint, accessed |-> TRUE],
           value |-> value,
           resolved |-> TRUE, read |-> system_path(c[1]).ok, rebuilt |-> result.ok]

\* get_or_init without any cache: every call reads and rebuilds from nothing
get_or_init_nocache(c, cell) ==
  LET result == read_result(c[1])
      value == IF result.ok THEN f_of(c, result.content, None) ELSE Err(result.err)
  IN [cell |-> [data |-> Some(value), fingerprint |-> hash128(result), accessed |-> TRUE],
      value |-> value,
      resolved |-> TRUE, read |-> system_path(c[1]).ok, rebuilt |-> result.ok]

\* get_or_init that caches successes only: a cached error is read again
get_or_init_retryerr(c, cell) ==
  LET result == read_result(c[1])
      fingerprint == hash128(result)
      value == IF result.ok THEN f_of(c, result.content, None) ELSE Err(result.err)
  IN IF cell.accessed /\ cell.data.some /\ cell.data.res.ok
       THEN [cell |-> cell, value |-> cell.data.res,
             resolved |-> FALSE, read |-> FALSE, rebuilt |-> FALSE]
     ELSE [cell |-> [data |-> Some(value), fingerprint |-> fingerprint, accessed |-> TRUE],
           value |-> value,
           resolved |-> TRUE, read |-> system_path(c[1]).ok, rebuilt |-> result.ok]

\* get_or_init that stores successes only: after a failure data stays None
get_or_init_nostore(c, cell) ==
  LET result == read_result(c[1])
      fingerprint == hash128(result)
      prev == IF cell.data.some /\ cell.data.res.ok THEN cell.data ELSE None
      value == IF result.ok THEN f_of(c, result.content, prev) ELSE Err(result.err)
  IN IF cell.accessed /\ cell.data.some
       THEN [cell |-> cell, value |-> cell.data.res,
             resolved |-> FALSE, read |-> FALSE, rebuilt |-> FALSE]
     ELSE [cell |-> [data |-> IF value.ok THEN Some(value) ELSE None,
                     fingerprint |-> fingerprint, accessed |-> TRUE],
           value |-> value,
           resolved |-> TRUE, read |-> system_path(c[1]).ok, rebuilt |-> result.ok]

\* SlotCell::get_or_init on cell c: the new cell, the returned value and
\* which of path resolution, storage read and rebuild were performed
get_or_init(c, cell) ==
  LET result == read_result(c[1])
      fingerprint == hash128(result)
      prev == IF cell.data.some /\ cell.data.res.ok THEN cell.data ELSE None
      value == IF result.ok THEN f_of(c, result.content, prev) ELSE Err(result.err)
  IN IF cell.accessed /\ cell.data.some
       THEN [cell |-> cell, value |-> cell.data.res,
             resolved |-> FALSE, read |-> FALSE, rebuilt |-> FALSE]
     ELSE IF cell.fingerprint = fingerprint /\ cell.data.some
       THEN [cell |-> [cell EXCEPT !.accessed = TRUE], value |-> cell.data.res,
             resolved |-> TRUE, read |-> system_path(c[1]).ok, rebuilt |-> FALSE]
     ELSE [cell |-> [data |-> Some(value), fingerprint |-> fingerprint, accessed |-> TRUE],
           value |-> value,
           resolved |-> TRUE, read |-> system_path(c[1]).ok, rebuilt |-> result.ok]

cellOf(c) == IF c[2] = "source" THEN slots[c[1]].source ELSE slots[c[1]].file

(***************************************************************************)
(* Bookkeeping of calls.                                                    *)
(***************************************************************************)
\* when: "never", "earlier" (in an earlier pass) or "now" (in this pass);
\* outcome: what path resolution and read gave, or would have given, at the
\* call; value: what the call returned; prior: whether the cell had been
\* called in an earlier pass, with the "same" outcome or one that "differs"
NoCall == [when |-> "never", outcome |-> Err(""), value |-> Err(""), prior |-> "never"]

\* source/file that take the slot out of the map when the resolution fails
Resolve_droperr(c) ==
  LET id == c[1]
      slot == IF slots[id].present THEN slots[id] ELSE FileSlot_new
      cell == IF c[2] = "source" THEN slot.source ELSE slot.file
      r == get_or_init(c, cell)
  IN /\ handle = "live"
     /\ ~aborted
     /\ inPass
     /\ calls < MaxCalls
     /\ calls' = calls + 1
     /\ slots' = [slots EXCEPT ![id] =
                    IF ~r.value.ok THEN NoSlot
                    ELSE IF c[2] = "source" THEN [slot EXCEPT !.source = r.cell]
                    ELSE [slot EXCEPT !.file = r.cell]]
     /\ last' = [last EXCEPT ![c] =
                    [when |-> "now", outcome |-> read_result(id), value |-> r.value,
                     prior |-> IF last[c].when = "earlier"
                                 THEN (IF last[c].outcome = read_result(id)
                                         THEN "same" ELSE "differs")
                                 ELSE last[c].prior]]
     /\ reads' = [reads EXCEPT ![c] = @ + (IF r.read THEN 1 ELSE 0)]
     /\ resolves' = [resolves EXCEPT ![c] = @ + (IF r.resolved THEN 1 ELSE 0)]
     /\ rebuilds' = [rebuilds EXCEPT ![c] = @ + (IF r.rebuilt THEN 1 ELSE 0)]
     /\ prepares' = prepares + (IF r.resolved /\ package(id) # "none" THEN 1 ELSE 0)
     /\ UNCHANGED <<handle, inputs, memVars, aborted, pass, inPass, envVars, ret, timeVars, concVars>>

\* source/file that keep one cache per slot: a call fills both cells
Resolve_both(c) ==
  LET id == c[1]
      slot == IF slots[id].present THEN slots[id] ELSE FileSlot_new
      cell == IF c[2] = "source" THEN slot.source ELSE slot.file
      r == get_or_init(c, cell)
  IN /\ handle = "live"
     /\ ~aborted
     /\ inPass
     /\ calls < MaxCalls
     /\ calls' = calls + 1
     /\ slots' = [slots EXCEPT ![id] = [slot EXCEPT !.source = r.cell, !.file = r.cell]]
     /\ last' = [last EXCEPT ![c] =
                    [when |-> "now", outcome |-> read_result(id), value |-> r.value,
                     prior |-> IF last[c].when = "earlier"
                                 THEN (IF last[c].outcome = read_result(id)
                                         THEN "same" ELSE "differs")
                                 ELSE last[c].prior]]
     /\ reads' = [reads EXCEPT ![c] = @ + (IF r.read THEN 1 ELSE 0)]
     /\ resolves' = [resolves EXCEPT ![c] = @ + (IF r.resolved THEN 1 ELSE 0)]
     /\ rebuilds' = [rebuilds EXCEPT ![c] = @ + (IF r.rebuilt THEN 1 ELSE 0)]
     /\ prepares' = prepares + (IF r.resolved /\ package(id) # "none" THEN 1 ELSE 0)
     /\ UNCHANGED <<handle, inputs, memVars, aborted, pass, inPass, envVars, ret, timeVars, concVars>>

\* SystemWorld::slot followed by FileSlot::source / FileSlot::file
Resolve(c) ==
  LET id == c[1]
      slot == IF slots[id].present THEN slots[id] ELSE FileSlot_new
      cell == IF c[2] = "source" THEN slot.source ELSE slot.file
      r == get_or_init(c, cell)
  IN /\ handle = "live"
     /\ ~aborted
     /\ inPass
     /\ calls < MaxCalls
     /\ calls' = calls + 1
     /\ slots' = [slots EXCEPT ![id] =
                    IF c[2] = "source" THEN [slot EXCEPT !.source = r.cell]
                    ELSE [slot EXCEPT !.file = r.cell]]
     /\ last' = [last EXCEPT ![c] =
                    [when |-> "now", outcome |-> read_result(id), value |-> r.value,
                     prior |-> IF last[c].when = "earlier"
                                 THEN (IF last[c].outcome = read_result(id)
                                         THEN "same" ELSE "differs")
                                 ELSE last[c].prior]]
     /\ reads' = [reads EXCEPT ![c] = @ + (IF r.read THEN 1 ELSE 0)]
     /\ resolves' = [resolves EXCEPT ![c] = @ + (IF r.resolved THEN 1 ELSE 0)]
     /\ rebuilds' = [rebuilds EXCEPT ![c] = @ + (IF r.rebuilt THEN 1 ELSE 0)]
     /\ prepares' = prepares + (IF r.resolved /\ package(id) # "none" THEN 1 ELSE 0)
     /\ UNCHANGED <<handle, inputs, memVars, aborted, pass, inPass, envVars, ret, timeVars, concVars>>

\* World::source
Source(id) == Resolve(<<id, "source">>)

\* World::file
File(id) == Resolve(<<id, "file">>)

(***************************************************************************)
(* lib.rs: the foreign boundary.                                            *)
(***************************************************************************)
\* pointers: null, the dangling pointer of an empty Vec, or an address
\* <<k, kind, i>> of the heap
Null == <<>>
Dangling == <<0>>

\* texts of diagnostics and query answers, as bytes
Msg == <<119>>
MsgNul == <<119, 0, 119>>
Texts == {Msg, MsgNul}
\* CString::new fails on an interior NUL byte
HasNul(m) == \E i \in 1..Len(m) : m[i] = 0

\* the JSON texts given as sys_inputs, and serde_json::from_str::<Dict>
JsonTexts == {"{}", "{\"k\":1}", "nope"}
from_str(s) ==
  CASE s = "{}" -> [ok |-> TRUE, dict |-> "empty"]
    [] s = "{\"k\":1}" -> [ok |-> TRUE, dict |-> "k1"]
    [] OTHER -> [ok |-> FALSE, dict |-> "empty"]

\* what compile_inner returns: Err(message), or Ok(buffers, warnings) with
\* the length of each buffer and the message of each warning
BufferLists == { <<>>, <<0, 2>> }
WarnLists == { <<>>, <<Msg>>, <<Msg, MsgNul>> }
CompileOutcomes ==
  {[ok |-> FALSE, err |-> e, buffers |-> <<>>, warnings |-> <<>>] : e \in Texts}
  \cup {[ok |-> TRUE, err |-> <<>>, buffers |-> b, warnings |-> w] :
          b \in BufferLists, w \in WarnLists}

\* the results of compile_inner drawn where only the store is observed
PassOutcomes ==
  {[ok |-> FALSE, err |-> Msg, buffers |-> <<>>, warnings |-> <<>>],
   [ok |-> TRUE, err |-> <<>>, buffers |-> <<2>>, warnings |-> <<>>]}

\* the smallest address base no live allocation uses
Used(h) == {a[1] : a \in DOMAIN h}
Fresh(h) == CHOOSE k \in 1..(Cardinality(DOMAIN h) + 1) :
              k \notin Used(h) /\ \A j \in 1..(k - 1) : j \in Used(h)

\* CompileResult::default
CompileResult_default ==
  [buffers |-> Null, buffers_len |-> 0, warnings |-> Null, warnings_len |-> 0,
   error |-> Null]

\* compile whose error arm does not start from CompileResult::default
marshal_nodefault(out, k) ==
  [panic |-> IF out.ok THEN \E j \in 1..Len(out.warnings) : HasNul(out.warnings[j])
             ELSE HasNul(out.err),
   result |-> [buffers |-> Dangling, buffers_len |-> 0,
               warnings |-> Dangling, warnings_len |-> 0,
               error |-> IF out.ok THEN Null ELSE <<k, "err", 0>>],
   allocs |-> IF out.ok THEN <<>> ELSE (<<k, "err", 0>> :> <<>>)]

\* compile, after compile_inner returned out: whether a CString::new(..).unwrap()
\* panics, the CompileResult, and the allocations handed to the caller
marshal(out, k) ==
  LET nb == Len(out.buffers)
      nw == Len(out.warnings)
      c_buffers == [i \in 1..nb |->
                      [ptr |-> IF out.buffers[i] = 0 THEN Dangling ELSE <<k, "buf", i>>,
                       len |-> out.buffers[i]]]
      c_warnings == [j \in 1..nw |-> [ptr |-> <<k, "msg", j>>, len |-> 0]]
      bufs == [a \in {<<k, "buf", i>> : i \in {i \in 1..nb : out.buffers[i] > 0}} |-> <<>>]
      msgs == [a \in {<<k, "msg", j>> : j \in 1..nw} |-> <<>>]
      barr == IF nb = 0 THEN <<>> ELSE (<<k, "buffers", 0>> :> c_buffers)
      warr == IF nw = 0 THEN <<>> ELSE (<<k, "warnings", 0>> :> c_warnings)
  IN IF out.ok
       THEN [panic |-> \E j \in 1..nw : HasNul(out.warnings[j]),
             result |-> [buffers |-> IF nb = 0 THEN Dangling ELSE <<k, "buffers", 0>>,
                         buffers_len |-> nb,
                         warnings |-> IF nw = 0 THEN Dangling ELSE <<k, "warnings", 0>>,
                         warnings_len |-> nw,
                         error |-> Null],
             allocs |-> bufs @@ msgs @@ barr @@ warr]
       ELSE [panic |-> HasNul(out.err),
             result |-> [CompileResult_default EXCEPT !.error = <<k, "err", 0>>],
             allocs |-> (<<k, "err", 0>> :> <<>>)]

\* the allocator: releasing an address that is not a live allocation is a fault
dealloc(st, ptr) ==
  IF ptr \in DOMAIN st.heap
    THEN [heap |-> [a \in DOMAIN st.heap \ {ptr} |-> st.heap[a]],
          fault |-> st.fault, n |-> st.n + 1]
    ELSE [st EXCEPT !.fault = IF st.fault = "none" THEN "bad_free" ELSE st.fault]

\* drop(Vec::from_raw_parts(ptr, len, cap)): a Vec of capacity 0 owns nothing
drop_vec(st, ptr, cap) == IF cap = 0 THEN st ELSE dealloc(st, ptr)

\* the elements of the array of len elements at ptr
load(st, ptr, len) ==
  IF len = 0 THEN <<>> ELSE IF ptr \in DOMAIN st.heap THEN st.heap[ptr] ELSE <<>>
load_fault(st, ptr, len) ==
  IF len > 0 /\ ptr \notin DOMAIN st.heap /\ st.fault = "none"
    THEN [st EXCEPT !.fault = "bad_deref"] ELSE st

\* for buffer in buffers { Vec::from_raw_parts(buffer.ptr, buffer.len, buffer.len) }
RECURSIVE drop_buffers(_, _)
drop_buffers(st, elems) ==
  IF elems = <<>> THEN st
  ELSE drop_buffers(drop_vec(st, elems[1].ptr, elems[1].len), Tail(elems))

\* for warning in warnings { CString::from_raw(warning.message) }
RECURSIVE drop_warnings(_, _)
drop_warnings(st, elems) ==
  IF elems = <<>> THEN st
  ELSE drop_warnings(dealloc(st, elems[1].ptr), Tail(elems))

\* free_compile_result that releases the two arrays but not their elements
free_result_shallow(st, result) ==
  LET s1 == IF result.buffers # Null
              THEN drop_vec(st, result.buffers, result.buffers_len) ELSE st
      s2 == IF result.warnings # Null
              THEN drop_vec(s1, result.warnings, result.warnings_len) ELSE s1
  IN IF result.error # Null THEN dealloc(s2, result.error) ELSE s2

\* free_compile_result: the heap and fault it leaves
free_result(st, result) ==
  LET s1 == IF result.buffers # Null
              THEN drop_vec(drop_buffers(load_fault(st, result.buffers, result.buffers_len),
                                         load(st, result.buffers, result.buffers_len)),
                            result.buffers, result.buffers_len)
              ELSE st
      s2 == IF result.warnings # Null
              THEN drop_vec(drop_warnings(load_fault(s1, result.warnings, result.warnings_len),
                                          load(s1, result.warnings, result.warnings_len)),
                            result.warnings, result.warnings_len)
              ELSE s1
  IN IF result.error # Null THEN dealloc(s2, result.error) ELSE s2

\* SystemWorld::new: the slot map holds the main slot, its source cell
\* initialised from the given text
SystemWorld_new(text) ==
  [id \in Ids |->
     IF id = MainId
       THEN [FileSlot_new EXCEPT
               !.source = SlotCell_init(SlotCell_new, Ok(<<MainId, "source", 0>>, text))]
       ELSE NoSlot]

\* op: the function; flag: what it returned (or, for free_compiler, that it
\* was given null); n: allocations released; arg: the sys_inputs text given
\* null: the handle given was null
NoRet == [op |-> "none", flag |-> FALSE, n |-> 0, arg |-> "", null |-> FALSE]

\* create_compiler(root, input, font_paths, .., sys_inputs, ..) with sys_inputs
\* drawn from the JSON texts J
create_compiler(J) ==
  /\ handle = "none"
  /\ ~aborted
  /\ \E text \in MainTexts : slots' = SystemWorld_new(text)
  /\ \E s \in J :
       /\ inputs' = IF from_str(s).ok THEN from_str(s).dict ELSE "empty"
       /\ ret' = [NoRet EXCEPT !.op = "create_compiler", !.flag = TRUE, !.arg = s]
  /\ handle' = "live"
  /\ now' = NoTime
  /\ UNCHANGED <<memVars, aborted, pass, inPass, envVars, last, countVars, concVars>>
  /\ UNCHANGED <<clock, clockReads, todays, lastToday>>

\* free_compiler(compiler) with the handle, or with null
free_compiler ==
  /\ ~aborted
  /\ ~inPass
  /\ \E null \in BOOLEAN :
       /\ ~null => handle = "live"
       /\ handle' = IF null THEN handle ELSE "freed"
       /\ slots' = IF null THEN slots ELSE [id \in Ids |-> NoSlot]
       /\ ret' = [NoRet EXCEPT !.op = "free_compiler", !.flag = null]
  /\ UNCHANGED <<inputs, memVars, aborted, pass, inPass, envVars, last, countVars, timeVars, concVars>>

\* SystemWorld::set_inputs: the library accepts the dictionary and replaces
\* the inputs, or rejects it and changes nothing
set_inputs(d, accept) ==
  IF accept THEN [ok |-> TRUE, inputs |-> d] ELSE [ok |-> FALSE, inputs |-> inputs]

\* set_sys_inputs that drops the compiler when it fails
set_sys_inputs_drop ==
  /\ ~aborted
  /\ ~inPass
  /\ \E null \in BOOLEAN, s \in JsonTexts \cup {"null"}, accept \in BOOLEAN :
       LET sys_inputs_str == IF s = "null" THEN "{}" ELSE s
           parsed == from_str(sys_inputs_str)
           r == set_inputs(parsed.dict, accept)
       IN /\ ~null => handle = "live"
          /\ IF null \/ ~parsed.ok
               THEN /\ inputs' = inputs
                    /\ handle' = IF null THEN handle ELSE "freed"
                    /\ ret' = [NoRet EXCEPT !.op = "set_sys_inputs", !.flag = FALSE,
                                             !.arg = s, !.null = null]
               ELSE /\ inputs' = r.inputs
                    /\ handle' = IF r.ok THEN handle ELSE "freed"
                    /\ ret' = [NoRet EXCEPT !.op = "set_sys_inputs", !.flag = r.ok, !.arg = s]
  /\ UNCHANGED <<slots, memVars, aborted, pass, inPass, envVars, last, countVars, timeVars, concVars>>

\* set_sys_inputs that parses as create_compiler does (unwrap_or_default)
set_sys_inputs_degrade ==
  /\ ~aborted
  /\ ~inPass
  /\ \E null \in BOOLEAN, s \in JsonTexts \cup {"null"}, accept \in BOOLEAN :
       LET sys_inputs_str == IF s = "null" THEN "{}" ELSE s
           parsed == from_str(sys_inputs_str)
           r == set_inputs(IF parsed.ok THEN parsed.dict ELSE "empty", accept)
       IN /\ ~null => handle = "live"
          /\ IF null
               THEN /\ inputs' = inputs
                    /\ ret' = [NoRet EXCEPT !.op = "set_sys_inputs", !.flag = FALSE,
                                             !.arg = s, !.null = null]
               ELSE /\ inputs' = r.inputs
                    /\ ret' = [NoRet EXCEPT !.op = "set_sys_inputs", !.flag = r.ok, !.arg = s]
  /\ UNCHANGED <<handle, slots, memVars, aborted, pass, inPass, envVars, last, countVars, timeVars, concVars>>

\* set_sys_inputs(compiler, sys_inputs) with the handle or null, and a JSON
\* text or null
set_sys_inputs ==
  /\ ~aborted
  /\ ~inPass
  /\ \E null \in BOOLEAN, s \in JsonTexts \cup {"null"}, accept \in BOOLEAN :
       LET sys_inputs_str == IF s = "null" THEN "{}" ELSE s
           parsed == from_str(sys_inputs_str)
           r == set_inputs(parsed.dict, accept)
       IN /\ ~null => handle = "live"
          /\ IF null \/ ~parsed.ok
               THEN /\ inputs' = inputs
                    /\ ret' = [NoRet EXCEPT !.op = "set_sys_inputs", !.flag = FALSE,
                                             !.arg = s, !.null = null]
               ELSE /\ inputs' = r.inputs
                    /\ ret' = [NoRet EXCEPT !.op = "set_sys_inputs", !.flag = r.ok, !.arg = s]
  /\ UNCHANGED <<handle, slots, memVars, aborted, pass, inPass, envVars, last, countVars, timeVars, concVars>>

\* compile: entry, up to the call of typst::compile by compile_inner, with
\* the handle or (null drawn from N) with null: compile does not test for null
\* and dereferences it, which ends the process
compile_call(N) ==
  /\ ~aborted
  /\ ~inPass
  /\ \E null \in N :
       IF null
         THEN /\ aborted' = TRUE
              /\ UNCHANGED <<pass, inPass, ret, last>>
         ELSE /\ handle = "live"
              /\ pass < MaxPass
              /\ Cardinality(held) < MaxHeld
              /\ pass' = pass + 1
              /\ inPass' = TRUE
              /\ ret' = [NoRet EXCEPT !.op = "compile_call"]
              /\ last' = [c \in Cells |->
                            IF last[c].when = "now"
                              THEN [last[c] EXCEPT !.when = "earlier"] ELSE last[c]]
              /\ UNCHANGED aborted
  /\ UNCHANGED <<handle, slots, inputs, memVars, envVars, countVars, timeVars, concVars>>

\* compile: from the return of compile_inner, with a result drawn from O, to
\* the return of compile
compile_return(O) ==
  /\ handle = "live"
  /\ ~aborted
  /\ inPass
  /\ \E out \in O :
       LET m == marshal(out, Fresh(heap))
       IN IF m.panic
            THEN /\ aborted' = TRUE
                 /\ UNCHANGED <<inPass, ret, held, heap>>
            ELSE /\ inPass' = FALSE
                 /\ held' = held \cup {m.result}
                 /\ heap' = heap @@ m.allocs
                 /\ ret' = [NoRet EXCEPT !.op = "compile", !.flag = out.ok]
                 /\ UNCHANGED aborted
  /\ UNCHANGED <<handle, slots, inputs, strs, fault, pass, envVars, last, countVars, timeVars, concVars>>

\* free_compile_result(result) on a result the caller holds
free_compile_result ==
  /\ ~aborted
  /\ ~inPass
  /\ \E result \in held :
       LET st == free_result([heap |-> heap, fault |-> fault, n |-> 0], result)
       IN /\ held' = held \ {result}
          /\ heap' = st.heap
          /\ fault' = st.fault
          /\ ret' = [NoRet EXCEPT !.op = "free_compile_result", !.n = st.n]
  /\ UNCHANGED <<handle, slots, inputs, strs, aborted, pass, inPass, envVars, last, countVars, timeVars, concVars>>

\* query::query: the JSON answer, or the error of the query
QueryOutcomes == {[ok |-> o, text |-> t] : o \in BOOLEAN, t \in Texts}

\* query(compiler, selector, field, one) with the handle or with null: query
\* does not test for null and dereferences it, which ends the process
query ==
  /\ ~aborted
  /\ ~inPass
  /\ Cardinality(strs) < MaxStrs
  /\ \E out \in QueryOutcomes, null \in BOOLEAN :
       LET s == <<Fresh(heap), "str", 0>>
       IN /\ ~null => handle = "live"
          /\ IF null \/ HasNul(out.text)
            THEN /\ aborted' = TRUE
                 /\ UNCHANGED <<strs, heap, ret>>
            ELSE /\ strs' = strs \cup {s}
                 /\ heap' = heap @@ (s :> <<>>)
                 /\ ret' = [NoRet EXCEPT !.op = "query", !.flag = out.ok]
                 /\ UNCHANGED aborted
  /\ UNCHANGED <<handle, slots, inputs, held, fault, pass, inPass, envVars, last, countVars, timeVars, concVars>>

\* free_string(s) on a string the caller holds, or on null
free_string ==
  /\ ~aborted
  /\ ~inPass
  /\ \E s \in strs \cup {Null} :
       LET st == IF s = Null THEN [heap |-> heap, fault |-> fault, n |-> 0]
                 ELSE dealloc([heap |-> heap, fault |-> fault, n |-> 0], s)
       IN /\ strs' = strs \ {s}
          /\ heap' = st.heap
          /\ fault' = st.fault
          /\ ret' = [NoRet EXCEPT !.op = "free_string", !.n = st.n]
  /\ UNCHANGED <<handle, slots, inputs, held, aborted, pass, inPass, envVars, last, countVars, timeVars, concVars>>

(***************************************************************************)
(* Environment.                                                             *)
(***************************************************************************)
FsChange ==
  /\ ~aborted
  /\ fsChanges < MaxFsChanges
  /\ \E id \in MutableIds, e \in FsEntries :
       /\ e # fs[id]
       /\ fs' = [fs EXCEPT ![id] = e]
  /\ fsChanges' = fsChanges + 1
  /\ UNCHANGED <<handle, slots, inputs, memVars, aborted, pkgOk, pass, inPass, ret, last, countVars, timeVars, concVars>>

PkgChange ==
  /\ ~aborted
  /\ fsChanges < MaxFsChanges
  /\ pkgOk' = ~pkgOk
  /\ fsChanges' = fsChanges + 1
  /\ UNCHANGED <<handle, slots, inputs, memVars, aborted, fs, pass, inPass, ret, last, countVars, timeVars, concVars>>

\* the day of the naive datetime today makes of the instant n (hours, UTC):
\* naive_local for None, naive_utc + hours(o) for Some(o)
naive_day(offset, n) ==
  IF offset.some THEN (n + offset.hours) \div DayHours
  ELSE (n + LocalOffset) \div DayHours

\* today that asks the clock on every call
today_fresh(offset, n, clk) ==
  [now |-> clk, read |-> TRUE, date |-> naive_day(offset, clk)]

\* World::today on a store whose now holds n (NoTime: not set) when the clock
\* shows clk: the new now, whether the clock was read, and the date
today(offset, n, clk) ==
  LET captured == IF n = NoTime THEN clk ELSE n
  IN [now |-> captured, read |-> n = NoTime, date |-> naive_day(offset, captured)]

\* the engine calls today(offset) during a compile
Today(offset) ==
  /\ handle = "live"
  /\ ~aborted
  /\ inPass
  /\ todays < MaxTodays
  /\ LET r == today(offset, now, clock)
     IN /\ now' = r.now
        /\ clockReads' = clockReads + (IF r.read THEN 1 ELSE 0)
        /\ lastToday' = [pass |-> pass, some |-> offset.some,
                         offset |-> offset.hours, date |-> r.date]
  /\ todays' = todays + 1
  /\ UNCHANGED <<handle, slots, inputs, memVars, aborted, envVars, pass, inPass, ret,
                 last, countVars, clock, concVars>>

\* the wall clock advances
Tick ==
  /\ ~aborted
  /\ clock < Clock0 + MaxTicks * TickHours
  /\ clock' = clock + TickHours
  /\ UNCHANGED <<handle, slots, inputs, memVars, aborted, envVars, pass, inPass, ret,
                 last, countVars, now, clockReads, todays, lastToday, concVars>>

(***************************************************************************)
(* source and file called from several engine threads: the steps of one    *)
(* call, from the lock of the slot map to its release.                      *)
(***************************************************************************)
\* position of a thread in SystemWorld::slot and SlotCell::get_or_init:
\* idle, at lock(), at the accessed test, at path().and_then(read), at the
\* fingerprint test and store, at the drop of the guard, returned
ThreadPcs == {"idle", "lock", "entry", "read", "store", "unlock", "done"}

\* the positions at which a thread is inside the closure slot runs
InClosure == {"entry", "read", "store", "unlock"}

\* the slot map with cell c replaced
setCell(c, cell) ==
  [slots EXCEPT ![c[1]] =
     IF c[2] = "source" THEN [@ EXCEPT !.source = cell] ELSE [@ EXCEPT !.file = cell]]

\* thread t calls source or file on c and arrives at self.slots.lock()
Call(t, c) ==
  /\ handle = "live"
  /\ ~aborted
  /\ inPass
  /\ calls < MaxConcCalls
  /\ tpc[t] = "idle"
  /\ calls' = calls + 1
  /\ tpc' = [tpc EXCEPT ![t] = "lock"]
  /\ tcell' = [tcell EXCEPT ![t] = c]
  /\ tfresh' = [tfresh EXCEPT ![t] = ~cellOf(c).accessed]
  /\ UNCHANGED <<handle, inputs, memVars, aborted, slots, pass, inPass, envVars, ret, last,
                 reads, resolves, rebuilds, prepares, timeVars, mutex, tres, tret>>

\* a slot map without mutual exclusion: the thread goes on whoever is inside
Acquire_nolock(t) ==
  /\ tpc[t] = "lock"
  /\ mutex' = t
  /\ slots' = [slots EXCEPT ![tcell[t][1]] = IF @.present THEN @ ELSE FileSlot_new]
  /\ tpc' = [tpc EXCEPT ![t] = "entry"]
  /\ UNCHANGED <<handle, inputs, memVars, aborted, pass, inPass, envVars, ret, last,
                 countVars, timeVars, tcell, tfresh, tres, tret>>

\* self.slots.lock() returns the guard and map.entry(id).or_insert_with
\* finds or inserts the slot
Acquire(t) ==
  /\ tpc[t] = "lock"
  /\ mutex = NoThread
  /\ mutex' = t
  /\ slots' = [slots EXCEPT ![tcell[t][1]] = IF @.present THEN @ ELSE FileSlot_new]
  /\ tpc' = [tpc EXCEPT ![t] = "entry"]
  /\ UNCHANGED <<handle, inputs, memVars, aborted, pass, inPass, envVars, ret, last,
                 countVars, timeVars, tcell, tfresh, tres, tret>>

\* get_or_init: mem::replace(&mut self.accessed, true) and the early return
Enter(t) ==
  /\ tpc[t] = "entry"
  /\ LET c == tcell[t]
         cell == cellOf(c)
     IN IF cell.accessed /\ cell.data.some
          THEN /\ tret' = [tret EXCEPT ![t] = cell.data.res]
               /\ tpc' = [tpc EXCEPT ![t] = "unlock"]
               /\ UNCHANGED slots
          ELSE /\ slots' = setCell(c, [cell EXCEPT !.accessed = TRUE])
               /\ tpc' = [tpc EXCEPT ![t] = "read"]
               /\ UNCHANGED tret
  /\ UNCHANGED <<handle, inputs, memVars, aborted, pass, inPass, envVars, ret, last,
                 countVars, timeVars, mutex, tcell, tfresh, tres>>

\* get_or_init: path().and_then(|p| read(&p))
PathRead(t) ==
  /\ tpc[t] = "read"
  /\ LET c == tcell[t]
     IN /\ tres' = [tres EXCEPT ![t] = read_result(c[1])]
        /\ resolves' = [resolves EXCEPT ![c] = @ + 1]
        /\ reads' = [reads EXCEPT ![c] = @ + (IF system_path(c[1]).ok THEN 1 ELSE 0)]
        /\ prepares' = prepares + (IF package(c[1]) # "none" THEN 1 ELSE 0)
  /\ tpc' = [tpc EXCEPT ![t] = "store"]
  /\ UNCHANGED <<handle, inputs, memVars, aborted, slots, pass, inPass, envVars, ret, last,
                 calls, rebuilds, timeVars, mutex, tcell, tfresh, tret>>

\* get_or_init: the fingerprint test, the rebuild and the store
Store(t) ==
  /\ tpc[t] = "store"
  /\ LET c == tcell[t]
         cell == cellOf(c)
         result == tres[t]
         fingerprint == hash128(result)
         prev == IF cell.data.some /\ cell.data.res.ok THEN cell.data ELSE None
         value == IF result.ok THEN f_of(c, result.content, prev) ELSE Err(result.err)
     IN IF cell.fingerprint = fingerprint /\ cell.data.some
          THEN /\ tret' = [tret EXCEPT ![t] = cell.data.res]
               /\ UNCHANGED <<slots, rebuilds>>
          ELSE /\ slots' = setCell(c, [cell EXCEPT !.data = Some(value),
                                                   !.fingerprint = fingerprint])
               /\ rebuilds' = [rebuilds EXCEPT ![c] = @ + (IF result.ok THEN 1 ELSE 0)]
               /\ tret' = [tret EXCEPT ![t] = value]
  /\ tpc' = [tpc EXCEPT ![t] = "unlock"]
  /\ UNCHANGED <<handle, inputs, memVars, aborted, pass, inPass, envVars, ret, last,
                 calls, reads, resolves, prepares, timeVars, mutex, tcell, tfresh, tres>>

\* slot returns: the guard is dropped
Release(t) ==
  /\ tpc[t] = "unlock"
  /\ mutex' = NoThread
  /\ tpc' = [tpc EXCEPT ![t] = "done"]
  /\ UNCHANGED <<handle, inputs, memVars, aborted, slots, pass, inPass, envVars, ret, last,
                 countVars, timeVars, tcell, tfresh, tres, tret>>

\* the engine thread takes the outcome and is free for its next request
Return(t) ==
  /\ tpc[t] = "done"
  /\ tpc' = [tpc EXCEPT ![t] = "idle"]
  /\ UNCHANGED <<handle, inputs, memVars, aborted, slots, pass, inPass, envVars, ret, last,
                 countVars, timeVars, mutex, tcell, tfresh, tres, tret>>

vars == <<handle, inputs, held, strs, heap, fault, aborted, slots, fs, pkgOk, pass,
          inPass, fsChanges, calls, ret, last, reads, resolves, rebuilds, prepares,
          now, clock, clockReads, todays, lastToday,
          mutex, tpc, tcell, tfresh, tres, tret>>

Init ==
  /\ handle = "none"
  /\ inputs = "empty"
  /\ held = {}
  /\ strs = {}
  /\ heap = <<>>
  /\ fault = "none"
  /\ aborted = FALSE
  /\ slots = [id \in Ids |-> NoSlot]
  /\ fs = [id \in ReadIds |-> IF id = MainId THEN Missing ELSE FileOf(<<97>>)]
  /\ pkgOk = TRUE
  /\ pass = 0
  /\ inPass = FALSE
  /\ fsChanges = 0
  /\ calls = 0
  /\ ret = NoRet
  /\ last = [c \in Cells |-> NoCall]
  /\ reads = [c \in Cells |-> 0]
  /\ resolves = [c \in Cells |-> 0]
  /\ rebuilds = [c \in Cells |-> 0]
  /\ prepares = 0
  /\ now = NoTime
  /\ clock = Clock0
  /\ clockReads = 0
  /\ todays = 0
  /\ lastToday = NoToday
  /\ mutex = NoThread
  /\ tpc = [t \in Threads |-> "idle"]
  /\ tcell = [t \in Threads |-> <<MainId, "source">>]
  /\ tfresh = [t \in Threads |-> FALSE]
  /\ tres = [t \in Threads |-> Err("")]
  /\ tret = [t \in Threads |-> Err("")]

\* The store under the engine: compile passes, the engine's source and file
\* requests, and the environment rewriting files between and during them.
Next ==
  \/ create_compiler({"{}"})
  \/ compile_call({FALSE})
  \/ compile_return(PassOutcomes)
  \/ free_compile_result
  \/ \E id \in Ids : Source(id)
  \/ \E id \in Ids : File(id)
  \/ FsChange
  \/ PkgChange

Spec == Init /\ [][Next]_vars

\* The foreign boundary: every exported function, called in any order by a
\* caller that keeps the ownership rules.  The engine's requests to the store
\* change no boundary state and are left out.
NextFfi ==
  \/ create_compiler(JsonTexts)
  \/ free_compiler
  \/ set_sys_inputs
  \/ compile_call(BOOLEAN)
  \/ compile_return(CompileOutcomes)
  \/ free_compile_result
  \/ query
  \/ free_string

SpecFfi == Init /\ [][NextFfi]_vars

\* The store's clock snapshot: compile passes, the engine's today requests,
\* and the wall clock advancing between and during them.
NextTime ==
  \/ create_compiler({"{}"})
  \/ compile_call({FALSE})
  \/ compile_return(PassOutcomes)
  \/ free_compile_result
  \/ \E offset \in Offsets : Today(offset)
  \/ Tick

SpecTime == Init /\ [][NextTime]_vars

\* One compilation whose engine resolves files from several threads, and the
\* environment rewriting files meanwhile.
NextConc ==
  \/ create_compiler({"{}"})
  \/ compile_call({FALSE})
  \/ \E t \in Threads, c \in Cells : Call(t, c)
  \/ \E t \in Threads : Acquire(t)
  \/ \E t \in Threads : Enter(t)
  \/ \E t \in Threads : PathRead(t)
  \/ \E t \in Threads : Store(t)
  \/ \E t \in Threads : Release(t)
  \/ \E t \in Threads : Return(t)
  \/ FsChange

SpecConc == Init /\ [][NextConc]_vars

(***************************************************************************)
(* Properties.                                                              *)
(***************************************************************************)
\* a step is a source or file call
IsCall == calls' = calls + 1

\* the state at the start of a pass: compile entered, no request made yet
PassStart == inPass /\ \A c \in Cells : last[c].when # "now"

\* value v is what resolving cell c afresh from read outcome o gives
FromOutcome(c, v, o) ==
  IF ~o.ok THEN v = Err(o.err)
  ELSE IF c[2] = "file" THEN v.ok /\ v.content = o.content
  ELSE IF decode_utf8(o.content).ok
    THEN v.ok /\ v.content = decode_utf8(o.content).content
  ELSE v = Err("InvalidUtf8")

\* C1: once a cell has been called in a pass, every further source/file call
\* on it in that pass returns the value the previous call returned and
\* performs no path resolution and no storage read, whatever the file now holds.
C1_PassShortCircuit ==
  [][IsCall =>
       \A c \in Cells :
         last[c].when = "now" =>
           /\ last'[c].value = last[c].value
           /\ resolves'[c] = resolves[c]
           /\ reads'[c] = reads[c]]_vars

\* a cell read in the first pass was called again in that pass when its file
\* no longer held what had been read
C1_Witness ==
  /\ pass = 1
  /\ \E c \in Cells :
       /\ last[c].when = "now"
       /\ reads[c] = 1
       /\ cellOf(c).fingerprint # hash128(last[c].outcome)

\* C2: when the bytes of a file changed since a decoded-text cell returned a
\* Source V1 in an earlier pass, source(id) in the later pass returns the
\* object of V1 with the new text, and file(id) returns a new Bytes object
\* with the new bytes.
C2_ContentChangeReuse ==
  [][IsCall =>
       \A c \in Cells :
         ( /\ last[c].when = "earlier" /\ last'[c].when = "now"
           /\ last[c].value.ok
           /\ last[c].outcome.ok /\ last'[c].outcome.ok
           /\ last'[c].outcome # last[c].outcome
           /\ decode_utf8(last'[c].outcome.content).ok )
         => IF c[2] = "source"
              THEN /\ last'[c].value.ok
                   /\ last'[c].value.obj = last[c].value.obj
                   /\ last'[c].value.content = decode_utf8(last'[c].outcome.content).content
              ELSE /\ last'[c].value.ok
                   /\ last'[c].value.obj # last[c].value.obj
                   /\ last'[c].value.content = last'[c].outcome.content]_vars

\* C3: at the start of each compile invocation the accessed flag of every
\* cell is false.  (Stated for the cells a source/file call sets: the
\* decoded-text cell of main is set accessed by SystemWorld::new.)
C3_PassReset ==
  PassStart =>
    \A c \in Cells \ {<<MainId, "source">>} :
      slots[c[1]].present => ~cellOf(c).accessed

\* C4: when the read outcome of an identity is the same as at its call in an
\* earlier pass, the call in the later pass returns the same value (for
\* source, the same object) and the rebuild function is not invoked.
C4_FingerprintStability ==
  [][IsCall =>
       \A c \in Cells :
         ( /\ last[c].when = "earlier" /\ last'[c].when = "now"
           /\ last'[c].outcome = last[c].outcome )
         => /\ last'[c].value = last[c].value
            /\ rebuilds'[c] = rebuilds[c]]_vars

\* a decoded-text cell returned a Source in a later pass with the file as it
\* was at the call of the earlier pass
C4_Witness ==
  \E id \in Ids \ {MainId} :
    /\ last[<<id, "source">>].when = "now"
    /\ last[<<id, "source">>].prior = "same"
    /\ last[<<id, "source">>].value.ok

\* C5: resolving the main identity, by source or by file, never resolves a
\* path and never reads the file system.
C5_MainBypass ==
  \A k \in CellKinds :
    resolves[<<MainId, k>>] = 0 /\ reads[<<MainId, k>>] = 0

\* C8: when a call found the file missing and returned NotFound, and the file
\* is missing at the next call on the same cell, that call returns the same
\* error and performs no storage access.
C8_ErrorCaching ==
  [][IsCall =>
       \A c \in Cells :
         ( /\ last[c].when # "never"
           /\ last[c].outcome = Err("NotFound")
           /\ last[c].value = Err("NotFound")
           /\ last'[c].outcome = Err("NotFound") )
         => /\ last'[c].value = Err("NotFound")
            /\ reads'[c] = reads[c]
            /\ resolves'[c] = resolves[c]]_vars

\* a cell of a missing file was called in two passes and returned NotFound
C8_Witness ==
  \E c \in Cells :
    /\ last[c].when = "now"
    /\ last[c].prior = "same"
    /\ last[c].outcome = Err("NotFound")
    /\ last[c].value = Err("NotFound")
    /\ reads[c] = 1

\* C9: when a cell holds a failure and the read outcome has changed since the
\* call of an earlier pass, the call in the later pass returns what the new
\* read gives.
C9_ChangedCauseInvalidates ==
  [][IsCall =>
       \A c \in Cells :
         ( /\ last[c].when = "earlier" /\ last'[c].when = "now"
           /\ ~last[c].value.ok
           /\ last'[c].outcome # last[c].outcome )
         => FromOutcome(c, last'[c].value, last'[c].outcome)]_vars

\* the allocations a held CompileResult or string gives access to
Reach(r) ==
  LET arr(p) == IF p \in DOMAIN heap THEN {heap[p][i].ptr : i \in DOMAIN heap[p]} ELSE {}
  IN {r.buffers, r.warnings, r.error} \cup arr(r.buffers) \cup arr(r.warnings)
NoLeak ==
  \A a \in DOMAIN heap : a \in strs \/ \E r \in held : a \in Reach(r)

\* C6: releasing the results compile returned, once each, never releases an
\* address that is not live (no double free, no dereference of a null array)
\* and leaves no allocation of a released result behind.
C6_OwnershipRoundTrip == fault = "none" /\ NoLeak

\* a result with a buffer array, a non-empty buffer, a warning array and a
\* warning message was released: four allocations, none left
C6_Witness ==
  /\ ret.op = "free_compile_result"
  /\ ret.n = 4
  /\ held = {}
  /\ \A a \in DOMAIN heap : a \in strs

\* C7: every result compile returned is a success (error null, buffer and
\* warning arrays non-null holding buffers_len and warnings_len elements) or
\* a failure (error non-null, both arrays null, both lengths 0).
C7_ResultShape ==
  \A r \in held :
    \/ /\ r.error = Null
       /\ r.buffers # Null /\ r.warnings # Null
       /\ r.buffers_len > 0 => r.buffers \in DOMAIN heap /\ Len(heap[r.buffers]) = r.buffers_len
       /\ r.warnings_len > 0 => r.warnings \in DOMAIN heap /\ Len(heap[r.warnings]) = r.warnings_len
    \/ /\ r.error # Null
       /\ r.buffers = Null /\ r.buffers_len = 0
       /\ r.warnings = Null /\ r.warnings_len = 0

\* compile returned a failure
C7_Witness ==
  /\ ret.op = "compile"
  /\ ~ret.flag
  /\ \E r \in held : r.error \in DOMAIN heap

\* C10: the handle stops being live only in a free_compiler call on it;
\* free_compiler on null changes neither the handle nor the store nor the heap.
C10_HandleLifecycle ==
  [][/\ (handle = "live" /\ handle' # "live")
          => (ret'.op = "free_compiler" /\ ~ret'.flag /\ handle' = "freed")
     /\ (ret'.op = "free_compiler" /\ ret'.flag)
          => (handle' = handle /\ slots' = slots /\ heap' = heap)]_vars

\* the handle is live after a compile and a failed set_sys_inputs
C10_Witness ==
  /\ handle = "live"
  /\ pass >= 1
  /\ ret.op = "set_sys_inputs"
  /\ ~ret.flag

\* the JSON text a call was given does not parse (null stands for "{}")
Unparsable(arg) == ~from_str(IF arg = "null" THEN "{}" ELSE arg).ok

\* C11: no boundary operation aborts the process, whatever it is given: a
\* null handle, or a diagnostic or query text that contains a NUL.
C11_NeverAborts == ~aborted

\* C12 as stated: create_compiler and set_sys_inputs given a JSON text that
\* does not parse both proceed with the empty dictionary and report success.
C12_DegradesEverywhere ==
  [][(/\ ret' # ret
      /\ ret'.op \in {"create_compiler", "set_sys_inputs"}
      /\ ~ret'.null
      /\ Unparsable(ret'.arg))
     => (inputs' = "empty" /\ ret'.flag)]_vars

\* C12 as the code has it: create_compiler given a JSON text that does not
\* parse returns a handle whose dictionary is empty; set_sys_inputs given one
\* returns false and leaves the dictionary as it was.
C12_DegradesInCreate ==
  [][/\ (ret' # ret /\ ret'.op = "create_compiler" /\ Unparsable(ret'.arg))
          => (handle' = "live" /\ inputs' = "empty")
     /\ (ret' # ret /\ ret'.op = "set_sys_inputs" /\ Unparsable(ret'.arg))
          => (~ret'.flag /\ inputs' = inputs /\ handle' = handle)]_vars

\* set_sys_inputs was given a text that does not parse, on a live handle
\* whose dictionary is not empty, and returned false
C12_Witness ==
  /\ ret.op = "set_sys_inputs"
  /\ ~ret.null
  /\ Unparsable(ret.arg)
  /\ ~ret.flag
  /\ handle = "live"
  /\ inputs = "k1"

\* the cells of identities that belong to a package
PkgCells == {c \in Cells : package(c[1]) # "none"}
RECURSIVE SumResolves(_)
SumResolves(S) ==
  IF S = {} THEN 0
  ELSE LET c == CHOOSE x \in S : TRUE IN resolves[c] + SumResolves(S \ {c})

\* C13 as stated: prepare_package runs at most once for the package, whatever
\* source and file calls are made on its identities.
C13_OncePerPackage == prepares <= 1

\* C13 as the code has it: prepare_package runs at most once for each cache
\* cell of an identity of the package, on that cell's path resolution: once
\* for source(id) and once more for file(id).
C13_OncePerCell ==
  /\ \A c \in PkgCells : resolves[c] <= 1
  /\ prepares = SumResolves(PkgCells)

\* source and file of the package's file were both called: two invocations
C13_Witness ==
  /\ prepares = 2
  /\ \A c \in PkgCells : last[c].when # "never"

\* C16: a slot in the map stays in the map; the main slot is there from
\* construction; after a source/file call on an identity, failed or not, its
\* slot is in the map.
C16_SlotsMonotone ==
  [][/\ \A id \in Ids : slots[id].present => slots'[id].present
     /\ handle' = "live" => slots'[MainId].present
     /\ \A c \in Cells : last'[c].when # "never" => slots'[c[1]].present]_vars

\* the slot of an identity whose resolution failed is in the map in a later pass
C16_Witness ==
  /\ pass = 2
  /\ \E id \in Ids \ {MainId} :
       /\ slots[id].present
       /\ last[<<id, "source">>].when = "earlier"
       /\ ~last[<<id, "source">>].value.ok

\* C18: over the life of the store every cell resolves its path at most
\* once, reads storage at most once and invokes its rebuild function at most
\* once, and then with no previous value; the decoded-text cell of main does
\* none of these; every later call returns what the first call returned.
C18_OnceForEver ==
  [][IsCall =>
       \A c \in Cells :
         /\ resolves'[c] <= 1 /\ reads'[c] <= 1 /\ rebuilds'[c] <= 1
         /\ rebuilds'[c] > rebuilds[c] => ~(cellOf(c).data.some /\ cellOf(c).data.res.ok)
         /\ last[c].when # "never" => last'[c].value = last[c].value
         /\ c = <<MainId, "source">> =>
              resolves'[c] = 0 /\ reads'[c] = 0 /\ rebuilds'[c] = 0]_vars

\* a cell was called in a later pass when its file had changed, and has
\* read and rebuilt once
C18_Witness ==
  \E c \in Cells :
    /\ last[c].when = "now"
    /\ last[c].prior = "differs"
    /\ reads[c] = 1
    /\ rebuilds[c] = 1

\* C19: a cell whose accessed flag is set holds a cached outcome.
C19_AccessedHasData ==
  \A c \in Cells : cellOf(c).accessed => cellOf(c).data.some

\* a cell is accessed and holds an error
C19_Witness ==
  \E c \in Cells :
    /\ cellOf(c).accessed
    /\ cellOf(c).data.some
    /\ ~cellOf(c).data.res.ok

\* the cell of c after the step
cellOfNext(c) == IF c[2] = "source" THEN slots'[c[1]].source ELSE slots'[c[1]].file

\* C20: a source or file call changes one cell at most, the one it is made on
\* (the cell whose call record it writes), and the first call on a cell
\* resolves and reads on its own, whatever the other cell of the slot holds.
C20_CellsIndependent ==
  [][IsCall =>
       /\ \E c \in Cells :
            /\ last'[c].when = "now"
            /\ \A d \in Cells \ {c} : cellOfNext(d) = cellOf(d) /\ last'[d] = last[d]
       /\ \A c \in Cells \ {<<MainId, "source">>} :
            (last[c].when = "never" /\ last'[c].when = "now")
              => resolves'[c] = resolves[c] + 1]_vars

\* source(id) then file(id) with the file rewritten in between: the cached
\* text and the cached bytes are of different contents
C20_Witness ==
  \E id \in Ids :
    LET s == slots[id].source.data
        f == slots[id].file.data
    IN /\ s.some /\ s.res.ok /\ f.some /\ f.res.ok
       /\ reads[<<id, "source">>] = 1 /\ reads[<<id, "file">>] = 1
       /\ decode_utf8(f.res.content).ok
       /\ decode_utf8(f.res.content).content # s.res.content

\* a step that is a today call
IsToday == todays' = todays + 1

C17_ResetBetweenCompiles ==
  [][IsToday =>
       IF lastToday.pass # pass
         THEN now' = clock /\ clockReads' = clockReads + 1
         ELSE now' = now /\ clockReads' = clockReads]_vars

\* C15: the slot-map lock serializes the calls: at most one thread is inside
\* the closure of slot, the thread that holds the lock; and two threads whose
\* calls on the same cell both began before the cell was accessed cause one
\* evaluation of path-and-read between them (one storage read when the path
\* resolves) and return the same outcome.
C15_Serialized ==
  /\ \A t \in Threads : tpc[t] \in InClosure => mutex = t
  /\ \A t1, t2 \in Threads :
       (/\ t1 # t2
        /\ tpc[t1] = "done" /\ tpc[t2] = "done"
        /\ tcell[t1] = tcell[t2]
        /\ tfresh[t1] /\ tfresh[t2])
       => /\ resolves[tcell[t1]] = 1
          /\ reads[tcell[t1]] = (IF system_path(tcell[t1][1]).ok THEN 1 ELSE 0)
          /\ tret[t1] = tret[t2]

\* both threads asked for the same unaccessed file, it was rewritten after
\* the one read, and both have returned
C15_Witness ==
  \E t1, t2 \in Threads :
    /\ t1 # t2
    /\ tpc[t1] = "done" /\ tpc[t2] = "done"
    /\ tcell[t1] = tcell[t2]
    /\ tcell[t1][1] \in MutableIds
    /\ tfresh[t1] /\ tfresh[t2]
    /\ reads[tcell[t1]] = 1
    /\ tret[t1].ok
    /\ \E t \in {t1, t2} : tres[t].ok /\ read_result(tcell[t][1]) # tres[t]

=============================================================================
